---- MODULE Spec2Model ----
(***************************************************************************)
(* check_project.py: a two-pass lint over the header files under src/.     *)
(* Paths, file contents and issue texts are character strings; the file    *)
(* system is fixed for the duration of one run.                            *)
(***************************************************************************)
EXTENDS FiniteSets, Integers, Sequences, TLC

\* ------------------------------------------------------------------ bounds

\* Largest number of regular files in the tree the run starts in.
MaxFiles == 3

\* ------------------------------------------------------- the file system

\* The regular files a tree may hold (every subset of at most MaxFiles).
Universe ==
    { "src/Top.h",
      "src/a/Foo.h", "src/a/Foo.cpp",
      "src/a/Foo.h.h", "src/a/Foo.cpp.cpp",
      "src/d.h/Baz.h",
      "src/.hid/X.h",
      "lib/Qux.h" }

\* What open(header, 'r') + f.read() can yield for a regular file: its text,
\* or an exception (permission denied, undecodable bytes).
Unreadable == "<OSError>"

Texts ==
    { "",
      "#pragma once\n#include <JuceHeader.h>\nclass Foo {};\n",
      "#pragma once\n#include \"JuceHeader.h\"\n" }

\* The directories implied by a set of regular files: every proper ancestor.
Dirs(fs) ==
    UNION { { SubSeq(p, 1, k - 1) :
                k \in { j \in 1..Len(p) : SubSeq(p, j, j) = "/" } } : p \in fs }

\* os.path.exists(path): true of a regular file and of a directory.
exists(fs, path) == path \in fs \/ path \in Dirs(fs)

\* Faulty variant of Matches: any entry whose name ends in ".h", wherever it lies.
MatchesAnywhere(p) ==
    /\ Len(p) > 2
    /\ SubSeq(p, Len(p) - 1, Len(p)) = ".h"

\* fnmatch of one tree entry against "src/**/*.h" (recursive): under src/,
\* last component ends in ".h", and no component below src/ starts with a
\* dot (neither "*" nor "**" matches a hidden name).
Matches(p) ==
    /\ Len(p) > 4
    /\ SubSeq(p, 1, 4) = "src/"
    /\ SubSeq(p, Len(p) - 1, Len(p)) = ".h"
    /\ \A k \in 1..(Len(p) - 1) : SubSeq(p, k, k + 1) # "/."

\* The entries glob.glob("src/**/*.h", recursive=True) yields: files and
\* directories alike.  A tree without src/ has no entry under "src/", and
\* glob swallows the scandir error: the result is then empty.
GlobSet(fs) == { p \in fs \cup Dirs(fs) : Matches(p) }

\* All enumeration orders of a finite set (glob guarantees none).
Orders(S) ==
    { s \in [1..Cardinality(S) -> S] :
        \A a, b \in 1..Cardinality(S) : a # b => s[a] # s[b] }

\* ------------------------------------------------------- pure functions

\* Faulty variant of replace: str.replace(old, new, 1), which rewrites the
\* first occurrence of old and keeps the rest of s as it is.
replace_first(s, old, new) ==
    LET hits == { k \in 1..(Len(s) - Len(old) + 1) :
                    SubSeq(s, k, k + Len(old) - 1) = old }
    IN  IF hits = {} THEN s
        ELSE LET k == CHOOSE m \in hits : \A n \in hits : m <= n
             IN  SubSeq(s, 1, k - 1) \o new \o SubSeq(s, k + Len(old), Len(s))

\* str.replace(old, new) with no count: scans left to right and replaces
\* every non-overlapping occurrence of old.
RECURSIVE replace(_, _, _)
replace(s, old, new) ==
    IF Len(s) < Len(old) THEN s
    ELSE IF SubSeq(s, 1, Len(old)) = old
         THEN new \o replace(SubSeq(s, Len(old) + 1, Len(s)), old, new)
         ELSE SubSeq(s, 1, 1) \o replace(SubSeq(s, 2, Len(s)), old, new)

\* Faulty variant of contains: looks at the start of the text only.
startswith(sub, s) == Len(sub) <= Len(s) /\ SubSeq(s, 1, Len(sub)) = sub

\* Python's `sub in s` on strings.
contains(sub, s) ==
    \E k \in 1..(Len(s) - Len(sub) + 1) : SubSeq(s, k, k + Len(sub) - 1) = sub

JuceInclude == "#include <JuceHeader.h>"

MissingImpl(h) == "Missing implementation: " \o h
MissingJuce(h) == "Missing JuceHeader.h in: " \o h

\* The warning glyph U+26A0 U+FE0F and two spaces (written in escape
\* notation: the module is ASCII).
Glyph == "\\u26a0\\ufe0f  "
ReportLine(problem) == Glyph \o problem

\* ------------------------------------------------------------------ state

VARIABLES
    files,      \* regular files of the tree
    disk,       \* file -> text, or Unreadable
    pc,         \* "main", "glob", "pass1", "pass2", "print", "exited"
    headers,    \* check_project: the glob result
    i,          \* position of the running for loop (1-based)
    header,     \* loop variable of the two passes
    cpp_file,   \* first pass: the derived path
    content,    \* second pass: the text read
    issues,     \* check_project: the accumulated list
    opened,     \* files opened so far, in order
    problems,   \* __main__: [bound, value], bound once check_project returned
    stdout,     \* lines printed
    exitCode    \* -1 while running, then the process exit status

vars == << files, disk, pc, headers, i, header, cpp_file, content, issues,
           opened, problems, stdout, exitCode >>

fsvars == << files, disk >>

Init ==
    /\ files \in { fs \in SUBSET Universe : Cardinality(fs) <= MaxFiles }
    /\ disk \in { d \in [files -> Texts \cup {Unreadable}] :
                    \A p \in files : ~Matches(p) => d[p] = "" }
    /\ pc = "main"
    /\ headers = << >>
    /\ i = 1
    /\ header = ""
    /\ cpp_file = ""
    /\ content = ""
    /\ issues = << >>
    /\ opened = << >>
    /\ problems = [bound |-> FALSE, value |-> << >>]
    /\ stdout = << >>
    /\ exitCode = -1

\* ---------------------------------------------------------------- actions

\* line 24 -> line 5: __main__ calls check_project(), which sets issues = [].
Call ==
    /\ pc = "main"
    /\ issues' = << >>
    /\ pc' = "glob"
    /\ UNCHANGED << fsvars, headers, i, header, cpp_file, content, opened,
                    problems, stdout, exitCode >>

\* Faulty variant of Glob: a missing src/ raises instead of yielding no header.
GlobStrict ==
    /\ pc = "glob"
    /\ IF "src" \in Dirs(files)
       THEN /\ headers' \in Orders(GlobSet(files))
            /\ pc' = "pass1"
            /\ exitCode' = exitCode
       ELSE /\ headers' = headers
            /\ pc' = "exited"
            /\ exitCode' = 1
    /\ i' = 1
    /\ UNCHANGED << fsvars, header, cpp_file, content, issues, opened,
                    problems, stdout >>

\* line 8: headers = glob.glob("src/**/*.h", recursive=True), in any order.
Glob ==
    /\ pc = "glob"
    /\ headers' \in Orders(GlobSet(files))
    /\ pc' = "pass1"
    /\ i' = 1
    /\ UNCHANGED << fsvars, header, cpp_file, content, issues, opened,
                    problems, stdout, exitCode >>

\* Faulty variant of Pass1Step: derives the path but reports every header.
Pass1StepAlways ==
    /\ pc = "pass1"
    /\ i <= Len(headers)
    /\ header' = headers[i]
    /\ cpp_file' = replace(headers[i], ".h", ".cpp")
    /\ issues' = Append(issues, MissingImpl(headers[i]))
    /\ i' = i + 1
    /\ UNCHANGED << fsvars, pc, headers, content, opened, problems, stdout,
                    exitCode >>

\* lines 9-12: one iteration of the first loop.
Pass1Step ==
    /\ pc = "pass1"
    /\ i <= Len(headers)
    /\ header' = headers[i]
    /\ cpp_file' = replace(headers[i], ".h", ".cpp")
    /\ issues' = IF ~exists(files, cpp_file')
                 THEN Append(issues, MissingImpl(headers[i]))
                 ELSE issues
    /\ i' = i + 1
    /\ UNCHANGED << fsvars, pc, headers, content, opened, problems, stdout,
                    exitCode >>

\* line 9 exhausted -> line 15: the second loop starts over the same list.
Pass1End ==
    /\ pc = "pass1"
    /\ i > Len(headers)
    /\ pc' = "pass2"
    /\ i' = 1
    /\ UNCHANGED << fsvars, headers, header, cpp_file, content, issues,
                    opened, problems, stdout, exitCode >>

\* open(header, 'r') / f.read() succeeds: a regular, readable file.
Readable(h) == h \in files /\ disk[h] # Unreadable

\* Faulty variant of Pass2Step: the issue text is inserted at the front of the list.
Pass2StepFront ==
    /\ pc = "pass2"
    /\ i <= Len(headers)
    /\ Readable(headers[i])
    /\ header' = headers[i]
    /\ opened' = Append(opened, headers[i])
    /\ content' = disk[headers[i]]
    /\ issues' = IF ~contains(JuceInclude, content')
                 THEN << MissingJuce(headers[i]) >> \o issues
                 ELSE issues
    /\ i' = i + 1
    /\ UNCHANGED << fsvars, pc, headers, cpp_file, problems, stdout,
                    exitCode >>

\* Faulty variant of Pass2Step: the second loop walks a list enumerated the other
\* way round.
Pass2StepReversed ==
    /\ pc = "pass2"
    /\ i <= Len(headers)
    /\ \A k \in 1..Len(headers) : Readable(headers[k])
    /\ header' = headers[Len(headers) + 1 - i]
    /\ opened' = Append(opened, header')
    /\ content' = disk[header']
    /\ issues' = IF ~contains(JuceInclude, content')
                 THEN Append(issues, MissingJuce(header'))
                 ELSE issues
    /\ i' = i + 1
    /\ UNCHANGED << fsvars, pc, headers, cpp_file, problems, stdout,
                    exitCode >>

\* lines 15-19: one iteration of the second loop, the file being readable.
Pass2Step ==
    /\ pc = "pass2"
    /\ i <= Len(headers)
    /\ Readable(headers[i])
    /\ header' = headers[i]
    /\ opened' = Append(opened, headers[i])
    /\ content' = disk[headers[i]]
    /\ issues' = IF ~contains(JuceInclude, content')
                 THEN Append(issues, MissingJuce(headers[i]))
                 ELSE issues
    /\ i' = i + 1
    /\ UNCHANGED << fsvars, pc, headers, cpp_file, problems, stdout,
                    exitCode >>

\* Faulty variant of Pass2Raise: the failure is caught, reported as an issue, and
\* the loop goes on.
Pass2Report ==
    /\ pc = "pass2"
    /\ i <= Len(headers)
    /\ ~Readable(headers[i])
    /\ header' = headers[i]
    /\ issues' = Append(issues, MissingJuce(headers[i]))
    /\ i' = i + 1
    /\ UNCHANGED << fsvars, pc, headers, cpp_file, content, opened, problems,
                    stdout, exitCode >>

\* lines 16-17 raise (a directory, no permission, undecodable bytes): nothing
\* catches the exception, neither in check_project nor in __main__; the
\* interpreter prints the traceback to stderr and exits with status 1.
Pass2Raise ==
    /\ pc = "pass2"
    /\ i <= Len(headers)
    /\ ~Readable(headers[i])
    /\ header' = headers[i]
    /\ pc' = "exited"
    /\ exitCode' = 1
    /\ UNCHANGED << fsvars, headers, i, cpp_file, content, issues, opened,
                    problems, stdout >>

\* line 21 -> line 24: return issues; __main__ binds problems.
Return ==
    /\ pc = "pass2"
    /\ i > Len(headers)
    /\ problems' = [bound |-> TRUE, value |-> issues]
    /\ pc' = "print"
    /\ i' = 1
    /\ UNCHANGED << fsvars, headers, header, cpp_file, content, issues,
                    opened, stdout, exitCode >>

\* Faulty variant of PrintStep: prints the issue text without the prefix.
PrintBare ==
    /\ pc = "print"
    /\ i <= Len(problems.value)
    /\ stdout' = Append(stdout, problems.value[i])
    /\ i' = i + 1
    /\ UNCHANGED << fsvars, pc, headers, header, cpp_file, content, issues,
                    opened, problems, exitCode >>

\* lines 25-26: one iteration of the print loop.
PrintStep ==
    /\ pc = "print"
    /\ i <= Len(problems.value)
    /\ stdout' = Append(stdout, ReportLine(problems.value[i]))
    /\ i' = i + 1
    /\ UNCHANGED << fsvars, pc, headers, header, cpp_file, content, issues,
                    opened, problems, exitCode >>

\* Faulty variant of Exit: status 1 when issues were found.
ExitByIssues ==
    /\ pc = "print"
    /\ i > Len(problems.value)
    /\ pc' = "exited"
    /\ exitCode' = IF problems.value = << >> THEN 0 ELSE 1
    /\ UNCHANGED << fsvars, headers, i, header, cpp_file, content, issues,
                    opened, problems, stdout >>

\* end of the script: the interpreter exits with status 0.
Exit ==
    /\ pc = "print"
    /\ i > Len(problems.value)
    /\ pc' = "exited"
    /\ exitCode' = 0
    /\ UNCHANGED << fsvars, headers, i, header, cpp_file, content, issues,
                    opened, problems, stdout >>

Next ==
    \/ Call
    \/ Glob
    \/ Pass1Step
    \/ Pass1End
    \/ Pass2Step
    \/ Pass2Raise
    \/ Return
    \/ PrintStep
    \/ Exit

Spec == Init /\ [][Next]_vars

\* ------------------------------------------------------------ properties

InSeq(x, sq) == \E k \in 1..Len(sq) : sq[k] = x
HasPrefix(pre, s) == Len(pre) <= Len(s) /\ SubSeq(s, 1, Len(pre)) = pre
Occurrences(sub, s) ==
    Cardinality({ k \in 1..(Len(s) - Len(sub) + 1) :
                    SubSeq(s, k, k + Len(sub) - 1) = sub })
IsImplIssue(s) == HasPrefix("Missing implementation: ", s)
IsJuceIssue(s) == HasPrefix("Missing JuceHeader.h in: ", s)
Position(h) == CHOOSE k \in 1..Len(headers) : headers[k] = h
Enumerated == { headers[k] : k \in 1..Len(headers) }
CannotRead(h) == h \notin files \/ disk[h] = "<OSError>"
SrcMissing == \A p \in files : ~HasPrefix("src/", p)

\* C1: in a completed run, "Missing implementation: h" is in the returned
\* list exactly when the path derived from h does not exist; for src/a/Foo.h
\* that is exactly when src/a/Foo.cpp is absent.
C1_MissingImplIffNoCpp ==
    problems.bound =>
        \A h \in Enumerated :
            /\ InSeq("Missing implementation: " \o h, problems.value)
                 <=> ~exists(files, replace(h, ".h", ".cpp"))
            /\ h = "src/a/Foo.h" =>
                 ( InSeq("Missing implementation: src/a/Foo.h", problems.value)
                     <=> "src/a/Foo.cpp" \notin files )

\* C1 witness: a completed run over src/a/Foo.h with its .cpp (no issue) and
\* src/Top.h without one (issue).
C1_Witness ==
    /\ problems.bound
    /\ {"src/a/Foo.h", "src/a/Foo.cpp", "src/Top.h"} \subseteq files
    /\ {"src/a/Foo.h", "src/Top.h"} \subseteq Enumerated
    /\ InSeq("Missing implementation: src/Top.h", problems.value)
    /\ ~InSeq("Missing implementation: src/a/Foo.h", problems.value)

\* C2: in a completed run, "Missing JuceHeader.h in: h" is in the returned
\* list exactly when the text of h has no occurrence of the include line,
\* whatever the first pass reported for h.
C2_MissingJuceIffNoInclude ==
    problems.bound =>
        \A h \in Enumerated :
            InSeq("Missing JuceHeader.h in: " \o h, problems.value)
              <=> Occurrences("#include <JuceHeader.h>", disk[h]) = 0

\* C2 witness: a completed run with one header reported by the first pass
\* only and another by the second pass only.
C2_Witness ==
    /\ problems.bound
    /\ \E g, h \in Enumerated :
          /\ InSeq(MissingImpl(g), problems.value)
          /\ ~InSeq(MissingJuce(g), problems.value)
          /\ ~InSeq(MissingImpl(h), problems.value)
          /\ InSeq(MissingJuce(h), problems.value)
          /\ Occurrences("JuceHeader.h", disk[h]) = 1

\* C3: in the issue list every missing-implementation issue stands before
\* every missing-include issue.
C3_ImplBeforeJuce ==
    /\ \A a, b \in 1..Len(issues) :
          IsImplIssue(issues[a]) /\ IsJuceIssue(issues[b]) => a < b
    /\ problems.bound => problems.value = issues

\* C3 witness: a returned list in which the missing-include issue of the
\* header enumerated first stands after the missing-implementation issue of
\* the header enumerated second.
C3_Witness ==
    /\ problems.bound
    /\ Len(headers) >= 2
    /\ problems.value = << MissingImpl(headers[2]), MissingJuce(headers[1]) >>

\* C4: when no entry under src/ matches the header pattern, check_project
\* returns the empty list and no file is opened.
C4_NoHeadersEmptyResult ==
    (files \cup Dirs(files)) \cap
        {"src/Top.h", "src/a/Foo.h", "src/a/Foo.h.h", "src/d.h",
         "src/d.h/Baz.h"} = {}
    => /\ opened = << >>
       /\ issues = << >>
       /\ pc \in {"print", "exited"} =>
            problems = [bound |-> TRUE, value |-> << >>]

\* C4 witness: a finished run over a tree whose src/ holds files, none of
\* them a header the pattern matches.
C4_Witness ==
    /\ pc = "exited"
    /\ files = {"src/a/Foo.cpp", "src/.hid/X.h", "lib/Qux.h"}
    /\ problems.bound
    /\ problems.value = << >>

\* C5: nothing is printed before check_project has returned; the k-th line
\* printed is the glyph prefix followed by the k-th issue; a run that ends
\* normally has printed exactly one line per issue.
C5_OneLinePerIssueInOrder ==
    /\ ~problems.bound => stdout = << >>
    /\ pc \notin {"print", "exited"} => stdout = << >>
    /\ Len(stdout) <= Len(problems.value)
    /\ \A k \in 1..Len(stdout) :
          stdout[k] = "\\u26a0\\ufe0f  " \o problems.value[k]
    /\ pc = "print" => Len(stdout) = i - 1
    /\ (pc = "exited" /\ problems.bound) => Len(stdout) = Len(problems.value)

\* C5 witness: a finished run that printed two or more lines.
C5_Witness ==
    /\ pc = "exited"
    /\ Len(stdout) >= 2
    /\ Len(stdout) = Len(problems.value)

\* C6 as stated: the process always exits with code 0.
C6_AlwaysExitZero == pc = "exited" => exitCode = 0

\* C6 amended: a run in which check_project returns exits with code 0
\* whether or not issues were found; only a run ended by an uncaught
\* exception exits with another code.
C6_ExitZeroWhenReturned ==
    pc = "exited" =>
        /\ problems.bound => exitCode = 0
        /\ ~problems.bound => exitCode = 1

\* C6 witness: a run that found issues and exited with code 0.
C6_Witness ==
    /\ pc = "exited"
    /\ problems.bound
    /\ problems.value # << >>
    /\ exitCode = 0

\* C7 as stated: the derived path is the header path with only its first
\* ".h" replaced by ".cpp".
C7_FirstOccurrenceOnly ==
    (pc = "pass1" /\ i > 1) =>
        /\ header = headers[i - 1]
        /\ cpp_file = replace_first(header, ".h", ".cpp")

\* C7 amended: the derived path is the header path with every ".h" replaced
\* by ".cpp": no ".h" is left, and each occurrence has grown by two
\* characters into a ".cpp".
C7_EveryOccurrenceReplaced ==
    (pc = "pass1" /\ i > 1) =>
        /\ header = headers[i - 1]
        /\ Occurrences(".h", cpp_file) = 0
        /\ Len(cpp_file) = Len(header) + 2 * Occurrences(".h", header)
        /\ Occurrences(".cpp", cpp_file)
             = Occurrences(".h", header) + Occurrences(".cpp", header)
        /\ header = "src/d.h/Baz.h" => cpp_file = "src/d.cpp/Baz.cpp"
        /\ header = "src/a/Foo.h.h" => cpp_file = "src/a/Foo.cpp.cpp"

\* C7 witness: the first pass has derived the path of a header with ".h" in
\* a directory segment and as its extension.
C7_Witness ==
    /\ pc = "pass1"
    /\ i > 1
    /\ header = "src/d.h/Baz.h"
    /\ cpp_file = "src/d.cpp/Baz.cpp"

\* C8: once the header list holds an entry that cannot be opened or read,
\* check_project never returns a list, nothing is printed, no issue names
\* the failure, and the run ends with the uncaught exception.
C8_UnreadableFailsWholeRun ==
    (pc \notin {"main", "glob"} /\ \E h \in Enumerated : CannotRead(h)) =>
        /\ ~problems.bound
        /\ stdout = << >>
        /\ pc # "print"
        /\ \A h \in Enumerated :
              CannotRead(h) => ~InSeq("Missing JuceHeader.h in: " \o h, issues)
        /\ pc = "exited" => exitCode = 1

\* C8 witness: a run ended by the exception after the first pass had
\* accumulated an issue and the second pass had read another header.
C8_Witness ==
    /\ pc = "exited"
    /\ exitCode = 1
    /\ \E k \in 1..Len(issues) : IsImplIssue(issues[k])
    /\ Len(opened) >= 1
    /\ CannotRead(header)
    /\ ~problems.bound

\* C9 as stated: with src/ missing the run ends in a failure and returns no
\* list.
C9_MissingSrcFails ==
    (SrcMissing /\ pc = "exited") => (exitCode # 0 /\ ~problems.bound)

\* C9 amended: with src/ missing the run completes: no header is
\* enumerated, the empty list is returned, nothing is printed and the exit
\* code is 0.
C9_MissingSrcCompletesEmpty ==
    SrcMissing =>
        /\ headers = << >>
        /\ pc = "exited" =>
             /\ problems = [bound |-> TRUE, value |-> << >>]
             /\ stdout = << >>
             /\ exitCode = 0

\* C9 witness: a finished run in a directory that has files but no src/.
C9_Witness ==
    /\ pc = "exited"
    /\ files = {"lib/Qux.h"}
    /\ exitCode = 0

\* C10: in a completed run every issue names an enumerated header, no
\* header has more than one issue of either kind (so at most two issues per
\* header), and within each kind the issues follow the enumeration order.
C10_AtMostOnePerHeaderInOrder ==
    problems.bound =>
        LET v == problems.value IN
        /\ Len(v) <= 2 * Len(headers)
        /\ \A k \in 1..Len(v) :
              \E h \in Enumerated :
                 \/ v[k] = "Missing implementation: " \o h
                 \/ v[k] = "Missing JuceHeader.h in: " \o h
        /\ \A a, b \in 1..Len(v) : v[a] = v[b] => a = b
        /\ \A a, b \in 1..Len(v) : \A g, h \in Enumerated :
              /\ a < b
              /\ \/ v[a] = "Missing implementation: " \o g
                      /\ v[b] = "Missing implementation: " \o h
                 \/ v[a] = "Missing JuceHeader.h in: " \o g
                      /\ v[b] = "Missing JuceHeader.h in: " \o h
              => Position(g) < Position(h)

\* C10 witness: a completed run over two headers, each reported by both
\* passes.
C10_Witness ==
    /\ problems.bound
    /\ Len(headers) = 2
    /\ Len(problems.value) = 4

====
